---- MODULE Spec2Model ----
(***************************************************************************)
(* A model of ai-tools-ox: the Jsonify type-to-schema protocol (lib.rs),   *)
(* the ToolBuilder, and the Tools registry with its sequential dispatcher  *)
(* (tools.rs).                                                             *)
(*                                                                         *)
(* Two specifications share the module:                                    *)
(*   BuilderSpec  one ToolBuilder call chain, ended by build()             *)
(*   Spec         a Tools registry grown by add_tool, serialized, and      *)
(*                queried by call_tools batches                            *)
(***************************************************************************)
EXTENDS Integers, Sequences, FiniteSets, TLC

VARIABLES
    builder,      \* the ToolBuilder value moved through the call chain
    bstatus,      \* "building" | "built" | "panicked"
    bresult,      \* Option<Result<Tool, ToolBuilderError>> returned by build()
    bops,         \* history: the calls made on the chain, in order
    registry,     \* Tools.0 : HashMap<String, (Value, Arc<dyn ToTool>)>
    adds,         \* history: the handlers passed to add_tool, in order
    serialized,   \* Option: what <Tools as Serialize>::serialize returned, if it
                  \* was the last operation on the registry
    pc,           \* position of call_tools: "idle" | "running" | "done" | "panicked"
    calls,        \* the tool_calls slice of the batch in progress
    idx,          \* 1-based position of the next request of the for loop
    results,      \* ToolsResults being accumulated
    running,      \* handler futures invoked and not yet completed
    returned,     \* Option: the ToolsResults call_tools returned
    invocations,  \* history: every ToTool::call_tool invocation of the batch
    maxInFlight   \* history: the largest number of handlers in progress at once

bvars == <<builder, bstatus, bresult, bops>>
dvars == <<registry, adds, serialized, pc, calls, idx, results, running,
           returned, invocations, maxInFlight>>
vars == <<builder, bstatus, bresult, bops, registry, adds, serialized, pc,
          calls, idx, results, running, returned, invocations, maxInFlight>>

-----------------------------------------------------------------------------
(* Bounds of the model *)

\* adder calls plus name()/description() calls in one builder chain
MaxOps == 3
\* add_tool calls on one registry
MaxAdds == 2
\* requests in one call_tools batch
MaxBatch == 2
\* scheduler polls a handler future may stay pending for
MaxLatency == 1

-----------------------------------------------------------------------------
(* Option<T>, HashMap<K, V> *)

None == [some |-> FALSE]
Some(x) == [some |-> TRUE, v |-> x]

EmptyMap == [k \in {} |-> None]

\* variant: an insert that keeps an existing entry (entry().or_insert)
HashMapInsertKeepFirst(m, k, v) ==
    [x \in DOMAIN m \cup {k} |-> IF x \in DOMAIN m THEN m[x] ELSE v]

\* HashMap::insert: the key's previous value, if any, is replaced
HashMapInsert(m, k, v) ==
    [x \in DOMAIN m \cup {k} |-> IF x = k THEN v ELSE m[x]]

\* HashMap::get
HashMapGet(m, k) == IF k \in DOMAIN m THEN Some(m[k]) ELSE None

-----------------------------------------------------------------------------
(* serde_json::Value *)

JNull == [kind |-> "null"]
JBool(b) == [kind |-> "bool", b |-> b]
\* serde_json::Number: N::PosInt(u64), N::NegInt(i64) or N::Float(f64).
\* m is the magnitude of an integer, or with e the magnitude m * 2^e of a
\* finite f64 (see the arithmetic of from_str's numbers).  neg is the sign:
\* -0.0 and 0.0 are two values, as their bits and their printed forms are
PosInt(u) == [repr |-> "PosInt", neg |-> FALSE, m |-> u, e |-> 0]
NegInt(u) == [repr |-> "NegInt", neg |-> TRUE, m |-> u, e |-> 0]
Float(neg, f) == [repr |-> "Float", neg |-> neg, m |-> f.m, e |-> f.e]
JNumber(n) == [kind |-> "number", n |-> n]
\* the text of a String is written as a TLA+ string where the program writes
\* it, and as the sequence of its characters where from_str decodes it
JString(s) == [kind |-> "string", s |-> s]
JArray(items) == [kind |-> "array", items |-> items]
JObject(fields) == [kind |-> "object", fields |-> fields]

\* Value::as_str
AsStr(v) == IF v.kind = "string" THEN Some(v.s) ELSE None

\* <Value as Display>::to_string of a Value::String whose text needs no
\* escaping: the text between two double-quote characters
ValueToString(v) == "\"" \o v.s \o "\""

-----------------------------------------------------------------------------
(* Jsonify (lib.rs) and the derived Object impl (object.rs) *)

\* the outcome of an Option::unwrap on None
Panic == [kind |-> "panic"]

TyString == [ty |-> "prim", name |-> "String"]
TyI32 == [ty |-> "prim", name |-> "i32"]
TyF32 == [ty |-> "prim", name |-> "f32"]
TyF64 == [ty |-> "prim", name |-> "f64"]
TyBool == [ty |-> "prim", name |-> "bool"]
TyVec(t) == [ty |-> "vec", of |-> t]
TyHashMap(k, v) == [ty |-> "map", key |-> k, val |-> v]
\* #[derive(Object)]
\* struct Foo { #[description(..)] a: i32, b: String, c: Vec<f32> }
TyFoo ==
    [ty |-> "object",
     fields |-> [a |-> [fty |-> TyI32, description |-> Some("a is some number")],
                 b |-> [fty |-> TyString, description |-> None],
                 c |-> [fty |-> TyVec(TyF32), description |-> None]]]

PrimTag(name) ==
    CASE name \in {"&str", "String", "char"} -> "string"
      [] name \in {"i8", "i16", "i32", "i64", "i128"} -> "number"
      [] name \in {"u8", "u16", "u32", "u64", "u128"} -> "number"
      [] name \in {"f32", "f64"} -> "number"
      [] name = "bool" -> "boolean"

\* <T as Jsonify>::jsonify(): a Value, or Panic where an inner
\* .as_str().unwrap() meets a Value that is no string
RECURSIVE Jsonify(_)
Jsonify(t) ==
    CASE t.ty = "prim" -> JString(PrimTag(t.name))
      [] t.ty = "vec" ->
            LET inner == Jsonify(t.of) IN
            IF inner = Panic \/ ~AsStr(inner).some THEN Panic
            ELSE JString(inner.s \o "[]")
      [] t.ty = "map" ->
            LET k == Jsonify(t.key)
                v == Jsonify(t.val) IN
            IF k = Panic \/ v = Panic \/ ~AsStr(k).some \/ ~AsStr(v).some
            THEN Panic
            ELSE JString("Map<" \o k.s \o ", " \o v.s \o ">")
      [] t.ty = "object" ->
            IF \E f \in DOMAIN t.fields : Jsonify(t.fields[f].fty) = Panic
            THEN Panic
            ELSE JObject([f \in DOMAIN t.fields |->
                    IF t.fields[f].description.some
                    THEN JObject([type |-> Jsonify(t.fields[f].fty),
                                  description |-> JString(t.fields[f].description.v)])
                    ELSE JObject([type |-> Jsonify(t.fields[f].fty)])])

-----------------------------------------------------------------------------
(* ToolParameter, ToolParameters, ToolBuilder (tools.rs) *)

ToolParameter(argument_type, description, argument_enum) ==
    [argument_type |-> argument_type,
     description |-> description,
     argument_enum |-> argument_enum]

\* ToolParameters::default()
ToolParametersDefault ==
    [parameter_type |-> "object", properties |-> EmptyMap, required |-> <<>>]

\* ToolBuilder::new()
ToolBuilderNew == [name |-> None, description |-> None, parameters |-> None]

\* Option<ToolParameters>::unwrap_or_default
UnwrapOrDefault(p) == IF p.some THEN p.v ELSE ToolParametersDefault

\* ToolBuilder::name
BuilderName(b, name) == [b EXCEPT !.name = Some(name)]

\* ToolBuilder::description
BuilderDescription(b, description) == [b EXCEPT !.description = Some(description)]

\* the typed adders' argument_type, T::jsonify().as_str().unwrap().to_string():
\* Some(tag), or None where the unwrap (or one inside jsonify) panics
TypeTag(t) ==
    LET j == Jsonify(t) IN
    IF j = Panic THEN None ELSE AsStr(j)

\* variant: add_parameter without the properties.insert of line 101
AddParameterNoInsert(b, t, name, description) ==
    IF ~TypeTag(t).some THEN Panic
    ELSE LET arguments == UnwrapOrDefault(b.parameters) IN
         [b EXCEPT !.parameters =
            Some([arguments EXCEPT !.required = Append(@, name)])]

\* ToolBuilder::add_parameter::<T>
AddParameter(b, t, name, description) ==
    IF ~TypeTag(t).some THEN Panic
    ELSE LET argument == ToolParameter(TypeTag(t).v, description, None)
             arguments == UnwrapOrDefault(b.parameters) IN
         [b EXCEPT !.parameters =
            Some([arguments EXCEPT
                    !.properties = HashMapInsert(@, name, argument),
                    !.required = Append(@, name)])]

\* variant: add_optional_parameter that also pushes to required
AddOptionalParameterPush(b, t, name, description) ==
    AddParameter(b, t, name, description)

\* ToolBuilder::add_optional_parameter::<T>
AddOptionalParameter(b, t, name, description) ==
    IF ~TypeTag(t).some THEN Panic
    ELSE LET argument == ToolParameter(TypeTag(t).v, description, None)
             arguments == UnwrapOrDefault(b.parameters) IN
         [b EXCEPT !.parameters =
            Some([arguments EXCEPT
                    !.properties = HashMapInsert(@, name, argument)])]

\* ToolBuilder::add_enum_parameter
AddEnumParameter(b, name, description, enum_values) ==
    LET argument == ToolParameter("string", description, Some(enum_values))
        arguments == UnwrapOrDefault(b.parameters) IN
    [b EXCEPT !.parameters =
        Some([arguments EXCEPT
                !.properties = HashMapInsert(@, name, argument),
                !.required = Append(@, name)])]

\* variant: add_optional_enum_parameter that keeps the type and description
\* of an entry already declared and only sets its enum values
AddOptionalEnumParameterKeepSpec(b, name, description, enum_values) ==
    LET arguments == UnwrapOrDefault(b.parameters)
        argument ==
            IF name \in DOMAIN arguments.properties
            THEN [arguments.properties[name] EXCEPT
                    !.argument_enum = Some(enum_values)]
            ELSE ToolParameter("string", description, Some(enum_values)) IN
    [b EXCEPT !.parameters =
        Some([arguments EXCEPT
                !.properties = HashMapInsert(@, name, argument)])]

\* ToolBuilder::add_optional_enum_parameter
AddOptionalEnumParameter(b, name, description, enum_values) ==
    LET argument == ToolParameter("string", description, Some(enum_values))
        arguments == UnwrapOrDefault(b.parameters) IN
    [b EXCEPT !.parameters =
        Some([arguments EXCEPT
                !.properties = HashMapInsert(@, name, argument)])]

Ok(x) == [ok |-> TRUE, v |-> x]
Err(e) == [ok |-> FALSE, err |-> e]

Tool(name, description, parameters) ==
    [tool_type |-> "Function",
     function |-> [name |-> name,
                   description |-> description,
                   parameters |-> parameters]]

\* variant: build that tests the description before the name
BuildDescriptionFirst(b) ==
    IF ~b.description.some THEN Err("DescriptionNotSet")
    ELSE IF ~b.name.some THEN Err("NameNotSet")
    ELSE Ok(Tool(b.name.v, b.description.v, UnwrapOrDefault(b.parameters)))

\* ToolBuilder::build
Build(b) ==
    IF ~b.name.some THEN Err("NameNotSet")
    ELSE IF ~b.description.some THEN Err("DescriptionNotSet")
    ELSE Ok(Tool(b.name.v, b.description.v, UnwrapOrDefault(b.parameters)))

-----------------------------------------------------------------------------
(* Arithmetic of from_str's numbers.  A u64 significand and the mantissa of *)
(* an f64 are naturals written in base 16, least significant digit first,  *)
(* with no high zero digit; zero is <<>>.  The magnitude of a finite f64 is *)
(* m * 2^e in the one form IEEE 754 binary64 gives it: m has 53 bits and   *)
(* -1074 <= e <= 971, or m has fewer bits and e = -1074, or m = <<>> and    *)
(* e = 0.  Products and quotients are rounded once, to nearest, ties to    *)
(* even, as the hardware operations `*` and `/` on f64 are.                *)

BigStrip(a) ==
    LET nz == {i \in 1..Len(a) : a[i] # 0} IN
    IF nz = {} THEN <<>>
    ELSE SubSeq(a, 1, CHOOSE i \in nz : \A j \in nz : j <= i)

RECURSIVE BigCarry(_, _, _)
BigCarry(cols, i, c) ==
    IF i > Len(cols)
    THEN IF c = 0 THEN <<>> ELSE <<c % 16>> \o BigCarry(cols, i, c \div 16)
    ELSE <<(cols[i] + c) % 16>>
            \o BigCarry(cols, i + 1, (cols[i] + c) \div 16)

\* the natural whose digit columns, before carrying, are cols
BigNorm(cols) == BigStrip(BigCarry(cols, 1, 0))

BigFromNat(n) == BigNorm(<<n>>)

\* a * k + d, for small k and d
BigMulAdd(a, k, d) ==
    BigNorm([i \in 1..(Len(a) + 1) |->
                (IF i <= Len(a) THEN a[i] * k ELSE 0) + (IF i = 1 THEN d ELSE 0)])

RECURSIVE BigColSum(_, _, _, _)
BigColSum(a, b, k, i) ==
    IF i > Len(a) \/ i > k THEN 0
    ELSE (IF k + 1 - i <= Len(b) THEN a[i] * b[k + 1 - i] ELSE 0)
            + BigColSum(a, b, k, i + 1)

BigMul(a, b) ==
    IF a = <<>> \/ b = <<>> THEN <<>>
    ELSE BigNorm([k \in 1..(Len(a) + Len(b) - 1) |-> BigColSum(a, b, k, 1)])

BigLt(a, b) ==
    \/ Len(a) < Len(b)
    \/ /\ Len(a) = Len(b)
       /\ \E i \in 1..Len(a) :
            /\ a[i] < b[i]
            /\ \A j \in (i + 1)..Len(a) : a[j] = b[j]

BigLe(a, b) == a = b \/ BigLt(a, b)

BigBitLen(a) ==
    IF a = <<>> THEN 0
    ELSE 4 * (Len(a) - 1)
            + (CASE a[Len(a)] >= 8 -> 4
                 [] a[Len(a)] \in 4..7 -> 3
                 [] a[Len(a)] \in 2..3 -> 2
                 [] OTHER -> 1)

\* bit i of a, bit 0 the least significant
BigBit(a, i) ==
    IF i \div 4 + 1 > Len(a) THEN 0
    ELSE (a[i \div 4 + 1] \div (2 ^ (i % 4))) % 2

\* whether a has a set bit below bit n
BigLowBits(a, n) ==
    \E i \in 0..((IF n < 4 * Len(a) THEN n ELSE 4 * Len(a)) - 1) :
        BigBit(a, i) = 1

\* a * 2^n
BigShl(a, n) ==
    IF a = <<>> THEN <<>>
    ELSE BigNorm([i \in 1..(Len(a) + n \div 4) |->
                    IF i <= n \div 4 THEN 0
                    ELSE a[i - n \div 4] * (2 ^ (n % 4))])

\* a \div 2^n
BigShr(a, n) ==
    IF Len(a) <= n \div 4 THEN <<>>
    ELSE BigStrip([i \in 1..(Len(a) - n \div 4) |->
            (a[i + n \div 4] \div (2 ^ (n % 4)))
            + ((IF i + n \div 4 + 1 <= Len(a) THEN a[i + n \div 4 + 1] ELSE 0)
                    % (2 ^ (n % 4))) * (16 \div (2 ^ (n % 4)))])

\* the digits p, p-1, .., 1 of n \div d, the higher ones being those of q
RECURSIVE BigDivDigits(_, _, _, _)
BigDivDigits(n, d, q, p) ==
    IF p = 0 THEN BigStrip(q)
    ELSE LET x == Cardinality({y \in 1..15 :
                    BigLe(BigMul(BigStrip([q EXCEPT ![p] = y]), d), n)}) IN
         BigDivDigits(n, d, [q EXCEPT ![p] = x], p - 1)

\* n \div d, for d # <<>>
BigDiv(n, d) ==
    IF Len(n) < Len(d) THEN <<>>
    ELSE BigDivDigits(n, d, [i \in 1..(Len(n) - Len(d) + 1) |-> 0],
                      Len(n) - Len(d) + 1)

F64Zero == [inf |-> FALSE, m |-> <<>>, e |-> 0]

\* a mantissa that rounding up has carried to 54 bits is 2^53
F64Carry(m, e) ==
    IF m = <<>> THEN F64Zero
    ELSE IF BigBitLen(m) = 54
    THEN [inf |-> e + 1 > 971, m |-> BigShr(m, 1), e |-> e + 1]
    ELSE [inf |-> e > 971, m |-> m, e |-> e]

\* round to nearest, ties to even: kept is M \div 2^shift
F64Nearest(M, sticky, E, shift, kept) ==
    IF /\ BigBit(M, shift - 1) = 1
       /\ (sticky \/ BigLowBits(M, shift - 1) \/ BigBit(kept, 0) = 1)
    THEN F64Carry(BigMulAdd(kept, 1, 1), E + shift)
    ELSE F64Carry(kept, E + shift)

\* M has L bits, of which the lowest `shift` have no room in the mantissa:
\* 53 bits are kept, or those down to the bit of weight 2^-1074
F64Shift(M, sticky, E, L, shift) ==
    IF shift > 0 THEN F64Nearest(M, sticky, E, shift, BigShr(M, shift))
    ELSE IF 53 - L < E + 1074
    THEN [inf |-> E - (53 - L) > 971, m |-> BigShl(M, 53 - L),
          e |-> E - (53 - L)]
    ELSE [inf |-> FALSE, m |-> BigShl(M, E + 1074), e |-> -1074]

F64RoundBits(M, sticky, E, L) ==
    IF L = 0 THEN F64Zero
    ELSE F64Shift(M, sticky, E, L,
                  IF L - 53 > (-1074) - E THEN L - 53 ELSE (-1074) - E)

\* The f64 nearest to (M + t) * 2^E, where 0 < t < 1 if sticky and t = 0
\* otherwise; inf where that f64 is an infinity.
F64Round(M, sticky, E) == F64RoundBits(M, sticky, E, BigBitLen(M))

\* `significand as f64`
U64ToF64(significand) == F64Round(significand, FALSE, 0)

\* f * g
F64Mul(f, g) ==
    IF f.m = <<>> \/ g.m = <<>> THEN F64Zero
    ELSE F64Round(BigMul(f.m, g.m), FALSE, f.e + g.e)

\* the quotient q of n = f.m * 2^64 by g.m, and whether it is inexact
F64Quotient(f, g, n, q) == F64Round(q, BigMul(q, g.m) # n, f.e - g.e - 64)

F64Dividend(f, g, n) == F64Quotient(f, g, n, BigDiv(n, g.m))

\* f / g, for g # 0
F64Div(f, g) ==
    IF f.m = <<>> THEN F64Zero ELSE F64Dividend(f, g, BigShl(f.m, 64))

\* static POW10: [f64; 309] = [1e000, 1e001, .., 1e308], each entry the f64
\* nearest to the power: <<hi, lo, e>> stands for (hi * 2^28 + lo) * 2^e
POW10 ==
    <<<<16777216, 0, -52>>, <<20971520, 0, -49>>, <<26214400, 0, -46>>,
      <<32768000, 0, -43>>, <<20480000, 0, -39>>, <<25600000, 0, -36>>,
      <<32000000, 0, -33>>, <<20000000, 0, -29>>, <<25000000, 0, -26>>,
      <<31250000, 0, -23>>, <<19531250, 0, -19>>, <<24414062, 134217728, -16>>,
      <<30517578, 33554432, -13>>, <<19073486, 88080384, -9>>, <<23841857, 244318208, -6>>,
      <<29802322, 104071168, -3>>, <<18626451, 132153344, 1>>, <<23283064, 98082816, 4>>,
      <<29103830, 122603520, 7>>, <<18189894, 9518336, 11>>, <<22737367, 146115648, 14>>,
      <<28421709, 115535696, 17>>, <<17763568, 105764242, 21>>, <<22204460, 132205302, 24>>,
      <<27755575, 165256628, 27>>, <<17347234, 203948689, 31>>, <<21684043, 120718133, 34>>,
      <<27105054, 83788802, 37>>, <<16940658, 253694593, 41>>, <<21175823, 182900513, 44>>,
      <<26469779, 161516778, 47>>, <<33087224, 134787108, 50>>, <<20679515, 84241943, 54>>,
      <<25849394, 38193564, 57>>, <<32311742, 181959683, 60>>, <<20194839, 46615938, 64>>,
      <<25243548, 259596515, 67>>, <<31554436, 56060187, 70>>, <<19721522, 169255345, 74>>,
      <<24651903, 77351453, 77>>, <<30814879, 29580453, 80>>, <<19259299, 119151079, 84>>,
      <<24074124, 81829985, 87>>, <<30092655, 102287481, 90>>, <<18807909, 164592972, 94>>,
      <<23509887, 4414622, 97>>, <<29387358, 206844870, 100>>, <<18367099, 62169180, 104>>,
      <<22958874, 10602611, 107>>, <<28698592, 147470991, 110>>, <<17936620, 92169370, 114>>,
      <<22420775, 115211712, 117>>, <<28025969, 76905776, 120>>, <<17516230, 215838270, 124>>,
      <<21895288, 135580110, 127>>, <<27369110, 169475137, 130>>, <<17105694, 38813097, 134>>,
      <<21382117, 182734099, 137>>, <<26727647, 27091031, 140>>, <<33409558, 235190381, 143>>,
      <<20880974, 79885124, 147>>, <<26101217, 234074133, 150>>, <<32626522, 91266075, 153>>,
      <<20391576, 124150161, 157>>, <<25489470, 155187701, 160>>, <<31861838, 59766898, 163>>,
      <<19913648, 238680903, 167>>, <<24892061, 29915673, 170>>, <<31115076, 104503455, 173>>,
      <<19446922, 199532388, 177>>, <<24308653, 115197757, 180>>, <<30385816, 211106060, 183>>,
      <<18991135, 131941287, 187>>, <<23738919, 97817745, 190>>, <<29673649, 55163317, 193>>,
      <<18546030, 202249233, 197>>, <<23182538, 118593814, 200>>, <<28978173, 14024539, 203>>,
      <<18111358, 42319769, 207>>, <<22639197, 187117439, 210>>, <<28298997, 32570207, 213>>,
      <<17686873, 53910811, 217>>, <<22108591, 134497378, 220>>, <<27635739, 101012859, 223>>,
      <<17272337, 29578605, 227>>, <<21590421, 104082120, 230>>, <<26988026, 197211514, 233>>,
      <<16867516, 190366060, 237>>, <<21084395, 237957575, 240>>, <<26355494, 230338105, 243>>,
      <<32944368, 153704903, 246>>, <<20590230, 96065565, 250>>, <<25737787, 254299684, 253>>,
      <<32172234, 250765741, 256>>, <<20107646, 223837452, 260>>, <<25134558, 145579087, 263>>,
      <<31418198, 47756131, 266>>, <<19636373, 231174174, 270>>, <<24545467, 87641125, 273>>,
      <<30681834, 42442542, 276>>, <<19176146, 93635453, 280>>, <<23970182, 251262044, 283>>,
      <<29962728, 179859827, 286>>, <<18726705, 112412392, 290>>, <<23408381, 207624354, 293>>,
      <<29260477, 58203850, 296>>, <<18287798, 69931839, 300>>, <<22859747, 221632526, 303>>,
      <<28574684, 209931794, 306>>, <<17859177, 265425099, 310>>, <<22323972, 130454782, 313>>,
      <<27904965, 163068477, 316>>, <<17440603, 135472230, 320>>, <<21800754, 102231424, 323>>,
      <<27250942, 262007008, 326>>, <<17031839, 96645516, 330>>, <<21289799, 53698031, 333>>,
      <<26612249, 13675, 336>>, <<33265311, 67125957, 339>>, <<20790819, 142617019, 343>>,
      <<25988524, 111162410, 346>>, <<32485655, 138953013, 349>>, <<20303534, 187508929, 353>>,
      <<25379418, 100168433, 356>>, <<31724272, 259428269, 359>>, <<19827670, 162142668, 363>>,
      <<24784588, 68460607, 366>>, <<30980735, 85575759, 369>>, <<19362959, 154148146, 373>>,
      <<24203699, 125576318, 376>>, <<30254624, 89861534, 379>>, <<18909140, 56163458, 383>>,
      <<23636425, 70204323, 386>>, <<29545531, 154864268, 389>>, <<18465957, 63235735, 393>>,
      <<23082446, 146153533, 396>>, <<28853058, 48474189, 399>>, <<18033161, 97405232, 403>>,
      <<22541451, 188865404, 406>>, <<28176814, 168972891, 409>>, <<17610509, 38499193, 413>>,
      <<22013136, 115232855, 416>>, <<27516420, 144041069, 419>>, <<17197762, 224243396, 423>>,
      <<21497203, 146086517, 426>>, <<26871504, 115499282, 429>>, <<16794690, 72187051, 433>>,
      <<20993362, 224451542, 436>>, <<26241703, 146346700, 439>>, <<32802129, 115824511, 442>>,
      <<20501330, 240162479, 446>>, <<25626663, 165985371, 449>>, <<32033329, 140372850, 452>>,
      <<20020830, 255505191, 456>>, <<25026038, 185163761, 459>>, <<31282548, 97236973, 462>>,
      <<19551592, 194990836, 466>>, <<24439490, 243738545, 469>>, <<30549363, 170455453, 472>>,
      <<19093352, 72980226, 476>>, <<23866690, 91225283, 479>>, <<29833362, 248249332, 482>>,
      <<18645851, 222264696, 486>>, <<23307314, 210722006, 489>>, <<29134143, 129184780, 492>>,
      <<18208839, 181403783, 496>>, <<22761049, 159645865, 499>>, <<28451311, 266666196, 502>>,
      <<17782069, 267329668, 506>>, <<22227587, 132835493, 509>>, <<27784484, 98935503, 512>>,
      <<17365302, 196052417, 516>>, <<21706628, 110847794, 519>>, <<27133285, 138559742, 522>>,
      <<16958303, 120154271, 526>>, <<21197879, 83083974, 529>>, <<26497349, 36746104, 532>>,
      <<33121686, 113041494, 535>>, <<20701054, 3542070, 539>>, <<25876317, 138645315, 542>>,
      <<32345396, 240415508, 545>>, <<20215873, 16041964, 549>>, <<25269841, 87161320, 552>>,
      <<31587301, 176060513, 555>>, <<19742063, 143592253, 559>>, <<24677579, 112381452, 562>>,
      <<30846974, 73367951, 565>>, <<19279358, 247181561, 569>>, <<24099198, 174759224, 572>>,
      <<30123998, 84231302, 575>>, <<18827498, 253971156, 579>>, <<23534373, 183246217, 582>>,
      <<29417967, 27731179, 585>>, <<18386229, 117995283, 589>>, <<22982786, 214602967, 592>>,
      <<28728483, 134035981, 595>>, <<17955302, 50218056, 599>>, <<22444127, 196990298, 602>>,
      <<28055159, 179129009, 605>>, <<17534474, 212618927, 609>>, <<21918093, 131555930, 612>>,
      <<27397616, 231553777, 615>>, <<17123510, 144721110, 619>>, <<21404388, 46683660, 622>>,
      <<26755485, 58354575, 625>>, <<33444356, 140052083, 628>>, <<20902722, 221750280, 632>>,
      <<26128403, 142970122, 635>>, <<32660504, 111603788, 638>>, <<20412815, 69752368, 642>>,
      <<25516019, 20081595, 645>>, <<31895023, 226428586, 648>>, <<19934389, 242181162, 652>>,
      <<24917987, 101399861, 655>>, <<31147484, 59640962, 658>>, <<19467177, 171493329, 662>>,
      <<24333972, 13040070, 665>>, <<30417465, 16300087, 668>>, <<19010915, 177959715, 672>>,
      <<23763644, 155340779, 675>>, <<29704555, 194175974, 678>>, <<18565347, 87805552, 682>>,
      <<23206684, 42648076, 685>>, <<29008355, 53310095, 688>>, <<18130221, 268199833, 692>>,
      <<22662777, 133923199, 695>>, <<28328471, 234512863, 698>>, <<17705294, 247233836, 702>>,
      <<22131618, 174824566, 705>>, <<27664523, 84312980, 708>>, <<17290327, 19141181, 712>>,
      <<21612908, 225253068, 715>>, <<27016136, 13130879, 718>>, <<16885085, 8206799, 722>>,
      <<21106356, 77367363, 725>>, <<26382945, 96709204, 728>>, <<32978681, 187995369, 731>>,
      <<20611676, 16833809, 735>>, <<25764595, 21042262, 738>>, <<32205743, 227629419, 741>>,
      <<20128589, 242931683, 745>>, <<25160737, 102338012, 748>>, <<31450921, 195031379, 751>>,
      <<19656826, 21231316, 755>>, <<24571032, 160756873, 758>>, <<30713790, 200946091, 761>>,
      <<19196119, 58482443, 765>>, <<23995149, 5994189, 768>>, <<29993936, 74601601, 771>>,
      <<18746210, 46626000, 775>>, <<23432762, 192500228, 778>>, <<29290953, 106407558, 781>>,
      <<18306845, 234276884, 785>>, <<22883557, 91519512, 788>>, <<28604446, 181508254, 791>>,
      <<17877779, 46333795, 795>>, <<22347223, 259243836, 798>>, <<27934029, 256945931, 801>>,
      <<17458768, 194145639, 805>>, <<21823460, 242682048, 808>>, <<27279326, 34917105, 811>>,
      <<17049578, 223149782, 815>>, <<21311973, 144719500, 818>>, <<26639966, 248008239, 821>>,
      <<33299958, 175792571, 824>>, <<20812474, 42761493, 828>>, <<26015592, 187669594, 831>>,
      <<32519490, 234586992, 834>>, <<20324681, 213725734, 838>>, <<25405852, 65830576, 841>>,
      <<31757315, 82288220, 844>>, <<19848322, 17875705, 848>>, <<24810402, 156562360, 851>>,
      <<31013003, 61485221, 854>>, <<19383127, 4873831, 858>>, <<24228908, 207418881, 861>>,
      <<30286135, 259273602, 864>>, <<18928834, 262709297, 868>>, <<23661043, 194168893, 871>>,
      <<29576304, 175602253, 874>>, <<18485190, 109751408, 878>>, <<23106488, 2971532, 881>>,
      <<28883110, 3714415, 884>>, <<18051943, 203648101, 888>>, <<22564929, 187451263, 891>>,
      <<28206162, 32987486, 894>>, <<17628851, 87726043, 898>>, <<22036064, 42548690, 901>>,
      <<27545080, 53185862, 904>>, <<17215675, 33241164, 908>>, <<21519593, 242878047, 911>>,
      <<26899492, 102270966, 914>>, <<16812182, 198137082, 918>>, <<21015228, 113453624, 921>>,
      <<26269035, 141817031, 924>>, <<32836294, 110162424, 927>>, <<20522684, 1742651, 931>>,
      <<25653355, 2178314, 934>>, <<32066693, 204049484, 937>>, <<20041683, 161085360, 941>>,
      <<25052104, 134247836, 944>>, <<31315130, 167809795, 947>>, <<19571956, 171989986, 951>>,
      <<24464945, 214987482, 954>>, <<30581182, 67407760, 957>>, <<19113238, 243456442, 961>>,
      <<23891548, 170102825, 964>>, <<29864435, 212628531, 967>>, <<18665272, 99338400, 971>>>>

Pow10Row(row) ==
    [inf |-> FALSE,
     m |-> [i \in 1..14 |-> IF i <= 7 THEN (row[2] \div (16 ^ (i - 1))) % 16
                            ELSE (row[1] \div (16 ^ (i - 8))) % 16],
     e |-> row[3]]

\* POW10[k]
Pow10(k) == Pow10Row(POW10[k + 1])

-----------------------------------------------------------------------------
(* serde_json::from_str::<Value>.  The payload, and every string decoded   *)
(* from it (string values and object keys), is the sequence of its Unicode *)
(* scalar values: decoding \uXXXX computes a character from its number.    *)
(* A character is written here by its number, named in a comment.          *)

Ws == {32, 10, 9, 13}    \* ' ' '\n' '\t' '\r'
Digits == 48..57         \* '0'..'9'

Fail == [ok |-> FALSE]
Parsed(v, next) == [ok |-> TRUE, v |-> v, next |-> next]

IsDigit(s, i) == i <= Len(s) /\ s[i] \in Digits

RECURSIVE SkipWs(_, _)
SkipWs(s, i) == IF i <= Len(s) /\ s[i] \in Ws THEN SkipWs(s, i + 1) ELSE i

RECURSIVE SkipDigits(_, _)
SkipDigits(s, i) == IF IsDigit(s, i) THEN SkipDigits(s, i + 1) ELSE i

IsHex(c) == c \in 48..57 \cup 65..70 \cup 97..102

HexValue(c) ==
    CASE c \in 48..57 -> c - 48      \* '0'..'9'
      [] c \in 65..70 -> c - 55      \* 'A'..'F'
      [] c \in 97..102 -> c - 87     \* 'a'..'f'

\* decode_hex_escape: the number written by the four characters from j
DecodeHexEscape(s, j) ==
    IF j + 3 <= Len(s) /\ \A k \in 0..3 : IsHex(s[j + k])
    THEN Some(HexValue(s[j]) * 4096 + HexValue(s[j + 1]) * 256
              + HexValue(s[j + 2]) * 16 + HexValue(s[j + 3]))
    ELSE None

\* parse_escape, for the character c after a backslash other than 'u'
Unescape(c) ==
    CASE c = 34 -> Some(34)      \* \" is '"'
      [] c = 92 -> Some(92)      \* \\ is '\'
      [] c = 47 -> Some(47)      \* \/ is '/'
      [] c = 98 -> Some(8)       \* \b is U+0008
      [] c = 102 -> Some(12)     \* \f is U+000C
      [] c = 110 -> Some(10)     \* \n is U+000A
      [] c = 114 -> Some(13)     \* \r is U+000D
      [] c = 116 -> Some(9)      \* \t is U+0009
      [] OTHER -> None

\* the scalar value a surrogate pair n1, n2 stands for
SurrogatePair(n1, n2, next) ==
    IF n2.some /\ n2.v \in 56320..57343                        \* DC00..DFFF
    THEN Parsed((n1 - 55296) * 1024 + (n2.v - 56320) + 65536, next)
    ELSE Fail

\* parse_escape for \u, n1 being the number of the escape at j: a scalar
\* value, or a surrogate pair written as two escapes; a surrogate that is not
\* the first half of such a pair is an error
UnicodeEscape(s, j, n1) ==
    IF ~n1.some THEN Fail
    ELSE IF n1.v \in 56320..57343 THEN Fail                 \* DC00..DFFF
    ELSE IF n1.v \in 55296..56319                           \* D800..DBFF
    THEN IF j + 5 <= Len(s) /\ s[j + 4] = 92 /\ s[j + 5] = 117     \* '\' 'u'
         THEN SurrogatePair(n1.v, DecodeHexEscape(s, j + 6), j + 10)
         ELSE Fail
    ELSE Parsed(n1.v, j + 4)

ParseUnicodeEscape(s, j) == UnicodeEscape(s, j, DecodeHexEscape(s, j))

RECURSIVE ScanString(_, _, _)
RECURSIVE ScanEscaped(_, _, _)

\* parse_str: the characters after the opening quote, up to the closing one
ScanString(s, j, acc) ==
    IF j > Len(s) THEN Fail
    ELSE IF s[j] = 34 THEN Parsed(acc, j + 1)                      \* '"'
    ELSE IF s[j] = 92                                              \* '\'
         THEN IF j + 1 > Len(s) THEN Fail
              ELSE IF s[j + 1] = 117                               \* 'u'
              THEN ScanEscaped(s, acc, ParseUnicodeEscape(s, j + 2))
              ELSE IF Unescape(s[j + 1]).some
              THEN ScanString(s, j + 2, Append(acc, Unescape(s[j + 1]).v))
              ELSE Fail
    ELSE IF s[j] < 32 THEN Fail            \* a raw control character
    ELSE ScanString(s, j + 1, Append(acc, s[j]))

\* parse_str after a \u escape, u being what parse_escape returned
ScanEscaped(s, acc, u) ==
    IF u.ok THEN ScanString(s, u.next, Append(acc, u.v)) ELSE Fail

\* u64::MAX / 10 and the magnitude of i64::MIN
U64MaxDiv10 == [i \in 1..16 |-> IF i = 16 THEN 1 ELSE 9]
I64MinMagnitude == [i \in 1..16 |-> IF i = 16 THEN 8 ELSE 0]

\* overflow!(significand * 10 + digit, u64::MAX); u64::MAX % 10 = 5
OverflowU64(significand, digit) ==
    /\ BigLe(U64MaxDiv10, significand)
    /\ (BigLt(U64MaxDiv10, significand) \/ digit > 5)

\* overflow!(exp * 10 + digit, i32::MAX)
OverflowI32(exp, digit) ==
    exp >= 214748364 /\ (exp > 214748364 \/ digit > 7)

\* i32::saturating_add and i32::saturating_sub, for b >= 0
SaturatingAdd(a, b) ==
    IF a > 0 /\ b > 2147483647 - a THEN 2147483647 ELSE a + b

SaturatingSub(a, b) ==
    IF a < 0 /\ b > a + 2147483647 + 1 THEN (-2147483647) - 1 ELSE a - b

\* the loop of f64_from_parts on f = significand as f64
F64Finite(f) == IF f.inf THEN Fail ELSE [ok |-> TRUE, f |-> f]

RECURSIVE F64Scale(_, _)
F64Scale(f, exponent) ==
    IF exponent \in 0..308 THEN F64Finite(F64Mul(f, Pow10(exponent)))
    ELSE IF exponent \in (-308)..(-1)
    THEN [ok |-> TRUE, f |-> F64Div(f, Pow10(-exponent))]
    ELSE IF f.m = <<>> THEN [ok |-> TRUE, f |-> f]
    ELSE IF exponent >= 0 THEN Fail
    ELSE F64Scale(F64Div(f, Pow10(308)), exponent + 308)

\* f64_from_parts, then Number::from_f64: the number at position `next`,
\* or the error NumberOutOfRange
F64Number(positive, r, next) ==
    IF r.ok THEN Parsed(JNumber(Float(~positive, r.f)), next) ELSE Fail

F64FromParts(positive, significand, exponent, next) ==
    F64Number(positive, F64Scale(U64ToF64(significand), exponent), next)

ParseExponentOverflow(s, i, positive, zero_significand, positive_exp) ==
    IF ~zero_significand /\ positive_exp THEN Fail
    ELSE Parsed(JNumber(Float(~positive, U64ToF64(<<>>))), SkipDigits(s, i))

RECURSIVE ParseExponentLoop(_, _, _, _, _, _, _)
ParseExponentLoop(s, i, positive, significand, starting_exp, positive_exp, exp) ==
    IF IsDigit(s, i)
    THEN IF OverflowI32(exp, s[i] - 48)
         THEN ParseExponentOverflow(s, i + 1, positive, significand = <<>>,
                                    positive_exp)
         ELSE ParseExponentLoop(s, i + 1, positive, significand, starting_exp,
                                positive_exp, exp * 10 + (s[i] - 48))
    ELSE F64FromParts(positive, significand,
                      IF positive_exp THEN SaturatingAdd(starting_exp, exp)
                      ELSE SaturatingSub(starting_exp, exp),
                      i)

\* parse_exponent, s[i] being 'e' or 'E'
ParseExponent(s, i, positive, significand, starting_exp) ==
    LET signed == i + 1 <= Len(s) /\ s[i + 1] \in {43, 45}       \* '+' '-'
        positive_exp == ~(i + 1 <= Len(s) /\ s[i + 1] = 45)
        k == IF signed THEN i + 2 ELSE i + 1 IN
    IF ~IsDigit(s, k) THEN Fail
    ELSE ParseExponentLoop(s, k + 1, positive, significand, starting_exp,
                           positive_exp, s[k] - 48)

\* parse_decimal_overflow: the digits the significand has no room for are
\* dropped
ParseDecimalTail(s, j, positive, significand, exponent) ==
    IF j <= Len(s) /\ s[j] \in {101, 69}                         \* 'e' 'E'
    THEN ParseExponent(s, j, positive, significand, exponent)
    ELSE F64FromParts(positive, significand, exponent, j)

ParseDecimalOverflow(s, i, positive, significand, exponent) ==
    ParseDecimalTail(s, SkipDigits(s, i), positive, significand, exponent)

RECURSIVE ParseDecimalLoop(_, _, _, _, _, _)
ParseDecimalLoop(s, i, positive, significand, exponent_before_decimal_point, exponent_after_decimal_point) ==
    LET exponent ==
            exponent_before_decimal_point + exponent_after_decimal_point IN
    IF IsDigit(s, i)
    THEN IF OverflowU64(significand, s[i] - 48)
         THEN ParseDecimalOverflow(s, i, positive, significand, exponent)
         ELSE ParseDecimalLoop(s, i + 1, positive,
                               BigMulAdd(significand, 10, s[i] - 48),
                               exponent_before_decimal_point,
                               exponent_after_decimal_point - 1)
    ELSE IF exponent_after_decimal_point = 0 THEN Fail
    ELSE ParseDecimalTail(s, i, positive, significand, exponent)

\* parse_decimal, s[i] being '.'
ParseDecimal(s, i, positive, significand, exponent_before_decimal_point) ==
    ParseDecimalLoop(s, i + 1, positive, significand,
                     exponent_before_decimal_point, 0)

\* parse_long_integer: the digits of an integer that a u64 cannot hold only
\* raise the exponent
RECURSIVE ParseLongInteger(_, _, _, _, _)
ParseLongInteger(s, i, positive, partial_significand, exponent) ==
    IF IsDigit(s, i)
    THEN ParseLongInteger(s, i + 1, positive, partial_significand,
                          exponent + 1)
    ELSE IF i <= Len(s) /\ s[i] = 46                             \* '.'
    THEN ParseDecimal(s, i, positive, partial_significand, exponent)
    ELSE ParseDecimalTail(s, i, positive, partial_significand, exponent)

\* parse_number: what follows the integer digits decides the kind of number
ParseNumber(s, i, positive, significand) ==
    IF i <= Len(s) /\ s[i] = 46                                  \* '.'
    THEN ParseDecimal(s, i, positive, significand, 0)
    ELSE IF i <= Len(s) /\ s[i] \in {101, 69}                    \* 'e' 'E'
    THEN ParseExponent(s, i, positive, significand, 0)
    ELSE IF positive THEN Parsed(JNumber(PosInt(significand)), i)
    ELSE IF significand = <<>> \/ BigLt(I64MinMagnitude, significand)
    THEN Parsed(JNumber(Float(TRUE, U64ToF64(significand))), i)
    ELSE Parsed(JNumber(NegInt(significand)), i)

RECURSIVE ParseIntegerLoop(_, _, _, _)
ParseIntegerLoop(s, i, positive, significand) ==
    IF IsDigit(s, i)
    THEN IF OverflowU64(significand, s[i] - 48)
         THEN ParseLongInteger(s, i, positive, significand, 0)
         ELSE ParseIntegerLoop(s, i + 1, positive,
                               BigMulAdd(significand, 10, s[i] - 48))
    ELSE ParseNumber(s, i, positive, significand)

\* parse_integer, from the first character after the sign
ParseInteger(s, i, positive) ==
    IF i > Len(s) THEN Fail
    ELSE IF s[i] = 48                                            \* '0'
    THEN IF IsDigit(s, i + 1) THEN Fail
         ELSE ParseNumber(s, i + 1, positive, <<>>)
    ELSE IF s[i] \in 49..57                                      \* '1'..'9'
    THEN ParseIntegerLoop(s, i + 1, positive, BigFromNat(s[i] - 48))
    ELSE Fail

\* parse_ident
ParseLiteral(s, i, word, v) ==
    IF i + Len(word) - 1 <= Len(s) /\ SubSeq(s, i, i + Len(word) - 1) = word
    THEN Parsed(v, i + Len(word))
    ELSE Fail

RECURSIVE ParseValue(_, _, _)
RECURSIVE ParseElements(_, _, _, _)
RECURSIVE ParseMembers(_, _, _, _)

\* SeqAccess, after an element: ',' and the next element, or ']'
ElementEnd(s, k, acc, remaining_depth) ==
    IF k > Len(s) THEN Fail
    ELSE IF s[k] = 44                                            \* ','
    THEN ParseElements(s, k + 1, acc, remaining_depth)
    ELSE IF s[k] = 93 THEN Parsed(JArray(acc), k + 1)            \* ']'
    ELSE Fail

\* SeqAccess, r being what the element's deserialize returned
ElementParsed(s, acc, remaining_depth, r) ==
    IF ~r.ok THEN Fail
    ELSE ElementEnd(s, SkipWs(s, r.next), Append(acc, r.v), remaining_depth)

\* the elements of an array from position i, acc being those before
ParseElements(s, i, acc, remaining_depth) ==
    ElementParsed(s, acc, remaining_depth, ParseValue(s, i, remaining_depth))

\* MapAccess, after a member: ',' and the next member, or '}'
MemberEnd(s, k, members, remaining_depth) ==
    IF k > Len(s) THEN Fail
    ELSE IF s[k] = 44                                            \* ','
    THEN ParseMembers(s, k + 1, members, remaining_depth)
    ELSE IF s[k] = 125 THEN Parsed(JObject(members), k + 1)      \* '}'
    ELSE Fail

\* MapAccess, r being what the value's deserialize returned: Map::insert
\* replaces the value of a key met before
MemberParsed(s, acc, remaining_depth, key, r) ==
    IF ~r.ok THEN Fail
    ELSE MemberEnd(s, SkipWs(s, r.next), HashMapInsert(acc, key, r.v),
                   remaining_depth)

\* MapAccess::next_value_seed: ':' and the value
MemberValue(s, c, acc, remaining_depth, key) ==
    IF c > Len(s) \/ s[c] # 58 THEN Fail                         \* ':'
    ELSE MemberParsed(s, acc, remaining_depth, key,
                      ParseValue(s, c + 1, remaining_depth))

\* MapAccess::next_key_seed, key being what parse_str returned
MemberKey(s, acc, remaining_depth, key) ==
    IF ~key.ok THEN Fail
    ELSE MemberValue(s, SkipWs(s, key.next), acc, remaining_depth, key.v)

\* MapAccess::next_key_seed: a key is a string
MemberStart(s, j, acc, remaining_depth) ==
    IF j > Len(s) \/ s[j] # 34 THEN Fail                         \* '"'
    ELSE MemberKey(s, acc, remaining_depth, ScanString(s, j + 1, <<>>))

\* the members of an object from position i, acc being those before
ParseMembers(s, i, acc, remaining_depth) ==
    MemberStart(s, SkipWs(s, i), acc, remaining_depth)

\* visit_map, j being the position after '{' and whitespace
ParseObject(s, j, remaining_depth) ==
    IF j <= Len(s) /\ s[j] = 125                                 \* '}'
    THEN Parsed(JObject(EmptyMap), j + 1)
    ELSE ParseMembers(s, j, EmptyMap, remaining_depth)

\* visit_seq, j being the position after '[' and whitespace
ParseArray(s, j, remaining_depth) ==
    IF j <= Len(s) /\ s[j] = 93                                  \* ']'
    THEN Parsed(JArray(<<>>), j + 1)
    ELSE ParseElements(s, j, <<>>, remaining_depth)

\* visit_str, r being what parse_str returned
StringValue(r) == IF r.ok THEN Parsed(JString(r.v), r.next) ELSE Fail

\* deserialize_any at the first character i that is no whitespace;
\* remaining_depth counts the arrays and objects that may still be entered:
\* check_recursion! decrements it and fails at zero
ParseValueAt(s, i, remaining_depth) ==
    IF i > Len(s) THEN Fail
    ELSE CASE s[i] = 123 ->                                      \* '{'
                IF remaining_depth - 1 = 0 THEN Fail
                ELSE ParseObject(s, SkipWs(s, i + 1), remaining_depth - 1)
           [] s[i] = 91 ->                                       \* '['
                IF remaining_depth - 1 = 0 THEN Fail
                ELSE ParseArray(s, SkipWs(s, i + 1), remaining_depth - 1)
           [] s[i] = 34 -> StringValue(ScanString(s, i + 1, <<>>))   \* '"'
           [] s[i] = 45 \/ s[i] \in Digits ->                    \* '-'
                ParseInteger(s, IF s[i] = 45 THEN i + 1 ELSE i, s[i] # 45)
           [] s[i] = 110 ->                                      \* "null"
                ParseLiteral(s, i, <<110, 117, 108, 108>>, JNull)
           [] s[i] = 116 ->                                      \* "true"
                ParseLiteral(s, i, <<116, 114, 117, 101>>, JBool(TRUE))
           [] s[i] = 102 ->                                      \* "false"
                ParseLiteral(s, i, <<102, 97, 108, 115, 101>>, JBool(FALSE))
           [] OTHER -> Fail

\* parse_whitespace, then deserialize_any
ParseValue(s, i0, remaining_depth) ==
    ParseValueAt(s, SkipWs(s, i0), remaining_depth)

\* Deserializer::end, r being what deserialize returned: nothing but
\* whitespace may follow the value
FromStrEnd(s, r) ==
    IF r.ok /\ SkipWs(s, r.next) > Len(s) THEN Ok(r.v) ELSE Err("syntax")

\* serde_json::from_str: one value, read with remaining_depth: 128
FromStr(s) == FromStrEnd(s, ParseValue(s, 1, 128))

-----------------------------------------------------------------------------
(* serde_json::to_value(&Tool), through the derived Serialize impls *)

\* #[serde(rename_all = "lowercase")] enum ToolType { Function }
ToolTypeToValue(t) == CASE t = "Function" -> JString("function")

StringsToValue(seq) == JArray([i \in 1..Len(seq) |-> JString(seq[i])])

\* "enum" is skipped when argument_enum is None
ToolParameterToValue(p) ==
    IF p.argument_enum.some
    THEN JObject([type |-> JString(p.argument_type),
                  description |-> JString(p.description),
                  enum |-> StringsToValue(p.argument_enum.v)])
    ELSE JObject([type |-> JString(p.argument_type),
                  description |-> JString(p.description)])

ToolParametersToValue(ps) ==
    JObject([type |-> JString(ps.parameter_type),
             properties |-> JObject([n \in DOMAIN ps.properties |->
                                ToolParameterToValue(ps.properties[n])]),
             required |-> StringsToValue(ps.required)])

ToValue(tool) ==
    JObject([type |-> ToolTypeToValue(tool.tool_type),
             function |-> JObject(
                [name |-> JString(tool.function.name),
                 description |-> JString(tool.function.description),
                 parameters |-> ToolParametersToValue(tool.function.parameters)])])

-----------------------------------------------------------------------------
(* ToolCall, ToolCallResult, ToolsResults, ToTool implementors *)

ToolCall(id, name, arguments) ==
    [id |-> id,
     tool_type |-> "Function",
     function |-> [name |-> name, arguments |-> arguments]]

ToolCallResult(tool_call_id, content) ==
    [tool_call_id |-> tool_call_id, content |-> content]

\* ToolsResults::new
ToolsResultsNew == <<>>

\* variant: add_result that inserts at the front
AddResultFront(rs, result) == <<result>> \o rs

\* ToolsResults::add_result
AddResult(rs, result) == Append(rs, result)

\* The host's implementors of ToTool.  h1 and h2 describe a tool of the same
\* name, h3 another tool; no handler is named "gamma".
Handlers == {"h1", "h2", "h3"}

\* ToTool::to_tool of each implementor, written with the builder
HandlerToTool(h) ==
    CASE h = "h1" ->
            Build(AddParameter(
                BuilderDescription(BuilderName(ToolBuilderNew, "alpha"), "first"),
                TyString, "x", "p")).v
      [] h = "h2" ->
            Build(AddOptionalEnumParameter(
                BuilderDescription(BuilderName(ToolBuilderNew, "alpha"), "second"),
                "y", "p", <<"a", "b">>)).v
      [] h = "h3" ->
            Build(BuilderDescription(BuilderName(ToolBuilderNew, "beta"), "third")).v

\* ToTool::call_tool is the host's code: it may return any ToolCallResult.
\* Here: a result for the call it was given, or one that names another id.
HandlerResults(h, id, input) ==
    {ToolCallResult(id, h \o " ok"), ToolCallResult("other", h \o " failed")}

-----------------------------------------------------------------------------
(* Tools (tools.rs) *)

\* Tools::default()
ToolsDefault == EmptyMap

\* variant: add_tool that does not replace an entry of the same name
AddToolKeepFirst(tools, h) ==
    LET tool == HandlerToTool(h)
        json == ToValue(tool)
        name == tool.function.name IN
    HashMapInsertKeepFirst(tools, name, [json |-> json, handler |-> h])

\* Tools::add_tool
AddTool(tools, h) ==
    LET tool == HandlerToTool(h)
        json == ToValue(tool)
        name == tool.function.name IN
    HashMapInsert(tools, name, [json |-> json, handler |-> h])

\* variant: the content as the plain text, not its JSON text
NotFoundResultPlain(id) == ToolCallResult(id, "Tool not found")

\* the else branch of Tools::call_tool:
\* content: json!("Tool not found").to_string()
NotFoundResult(id) ==
    ToolCallResult(id, ValueToString(JString("Tool not found")))

\* `let json = from_str(..).unwrap(); tool.call_tool(&id, json)`, json being
\* what from_str returned
Unwrap(handler, id, json) ==
    IF json.ok
    THEN [kind |-> "invoke", handler |-> handler, id |-> id, input |-> json.v]
    ELSE [kind |-> "panic"]

\* variant: call_tool that answers a decode failure with an error result
CallToolErrorEnvelope(tools, tool_call) ==
    LET function_name == tool_call.function.name
        id == tool_call.id
        found == HashMapGet(tools, function_name) IN
    IF found.some
    THEN LET json == FromStr(tool_call.function.arguments) IN
         IF json.ok
         THEN [kind |-> "invoke", handler |-> found.v.handler, id |-> id,
               input |-> json.v]
         ELSE [kind |-> "result",
               result |-> ToolCallResult(id, "invalid arguments")]
    ELSE [kind |-> "result", result |-> NotFoundResult(id)]

\* variant: call_tool that hands the handler Value::Null, not the arguments
CallToolNullInput(tools, tool_call) ==
    LET function_name == tool_call.function.name
        id == tool_call.id
        found == HashMapGet(tools, function_name) IN
    IF found.some
    THEN LET json == FromStr(tool_call.function.arguments) IN
         IF json.ok
         THEN [kind |-> "invoke", handler |-> found.v.handler, id |-> id,
               input |-> JNull]
         ELSE [kind |-> "panic"]
    ELSE [kind |-> "result", result |-> NotFoundResult(id)]

\* Tools::call_tool up to its await: the result of the not-found branch, the
\* handler invocation to await, or the panic of from_str(..).unwrap()
CallTool(tools, tool_call) ==
    LET function_name == tool_call.function.name
        id == tool_call.id
        found == HashMapGet(tools, function_name) IN
    IF found.some
    THEN Unwrap(found.v.handler, id, FromStr(tool_call.function.arguments))
    ELSE [kind |-> "result", result |-> NotFoundResult(id)]

\* variant: a loop that does not wait for the handler before going on
AwaitedNever(futures) == TRUE

\* `self.call_tool(tool_call).await` in the loop of call_tools: the loop goes
\* on only once the future it awaits has completed
Awaited(futures) == futures = {}

\* <Tools as Serialize>::serialize: the cached json of every entry, in the
\* HashMap's iteration order, which is any order of its keys
SerializeOrders(tools) ==
    {o \in [1..Cardinality(DOMAIN tools) -> DOMAIN tools] :
        \A i, j \in DOMAIN o : i # j => o[i] # o[j]}

SerializeTools(tools, order) == [i \in DOMAIN order |-> tools[order[i]].json]

-----------------------------------------------------------------------------
(* Inputs of dispatch *)

CallIds == {"c1", "c2"}
CallNames == {"alpha", "beta", "gamma"}

\* {"x":"v"}
PayloadObject == <<123, 34, 120, 34, 58, 34, 118, 34, 125>>
\* {"x":
PayloadTruncated == <<123, 34, 120, 34, 58>>
Payloads == {PayloadObject, PayloadTruncated}

Requests ==
    {ToolCall(id, name, arguments) :
        id \in CallIds, name \in CallNames, arguments \in Payloads}

Batches == UNION {[1..n -> Requests] : n \in 0..MaxBatch}

-----------------------------------------------------------------------------
(* Registry and dispatch: one action per operation or suspension point.    *)
(* The registry is built first and one call_tools batch then runs on it:   *)
(* call_tools borrows the registry and starts from a fresh ToolsResults, so *)
(* a later batch would begin in one of the states a first batch begins in. *)
(* A handler that never completes is a behaviour that stops at its await.  *)

DoAddTool ==
    /\ pc = "idle"
    /\ Len(adds) < MaxAdds
    /\ \E h \in Handlers :
        /\ registry' = AddTool(registry, h)
        /\ adds' = Append(adds, h)
    /\ serialized' = None
    /\ UNCHANGED <<pc, calls, idx, results, running, returned,
                   invocations, maxInFlight>>
    /\ UNCHANGED bvars

DoSerialize ==
    /\ pc = "idle"
    /\ \E order \in SerializeOrders(registry) :
        serialized' = Some(SerializeTools(registry, order))
    /\ UNCHANGED <<registry, adds, pc, calls, idx, results, running, returned,
                   invocations, maxInFlight>>
    /\ UNCHANGED bvars

\* call_tools is entered: `let mut results = ToolsResults::new();`
CallToolsBegin ==
    /\ pc = "idle"
    /\ \E tool_calls \in Batches : calls' = tool_calls
    /\ pc' = "running"
    /\ idx' = 1
    /\ results' = ToolsResultsNew
    /\ running' = {}
    /\ returned' = None
    /\ invocations' = <<>>
    /\ maxInFlight' = 0
    /\ serialized' = None
    /\ UNCHANGED <<registry, adds>>
    /\ UNCHANGED bvars

\* one iteration of the loop, up to the handler's await
CallToolsIterate ==
    /\ pc = "running"
    /\ idx <= Len(calls)
    /\ Awaited(running)
    /\ \E out \in {CallTool(registry, calls[idx])} :
        CASE out.kind = "result" ->
                /\ results' = AddResult(results, out.result)
                /\ idx' = idx + 1
                /\ UNCHANGED <<pc, running, invocations, maxInFlight>>
          [] out.kind = "panic" ->
                /\ pc' = "panicked"
                /\ UNCHANGED <<idx, results, running, invocations, maxInFlight>>
          [] out.kind = "invoke" ->
                /\ running' = running \cup
                        {[k |-> idx, handler |-> out.handler, polls |-> 0]}
                /\ invocations' = Append(invocations,
                        [k |-> idx, handler |-> out.handler, id |-> out.id,
                         input |-> out.input, result |-> None])
                /\ maxInFlight' = IF Cardinality(running') > maxInFlight
                                  THEN Cardinality(running') ELSE maxInFlight
                /\ idx' = idx + 1
                /\ UNCHANGED <<pc, results>>
    /\ UNCHANGED <<registry, adds, serialized, calls, returned>>
    /\ UNCHANGED bvars

\* the awaited handler is polled and is still pending
HandlerPending ==
    /\ pc = "running"
    /\ \E f \in running :
        /\ f.polls < MaxLatency
        /\ running' = (running \ {f}) \cup {[f EXCEPT !.polls = @ + 1]}
    /\ UNCHANGED <<registry, adds, serialized, pc, calls, idx, results, returned,
                   invocations, maxInFlight>>
    /\ UNCHANGED bvars

\* the awaited handler completes: `results.add_result(result);`
HandlerReturn ==
    /\ pc = "running"
    /\ \E f \in running :
        \E j \in 1..Len(invocations) :
            /\ invocations[j].k = f.k
            /\ \E result \in HandlerResults(f.handler, invocations[j].id,
                                            invocations[j].input) :
                /\ results' = AddResult(results, result)
                /\ invocations' =
                        [invocations EXCEPT ![j].result = Some(result)]
            /\ running' = running \ {f}
    /\ UNCHANGED <<registry, adds, serialized, pc, calls, idx, maxInFlight,
                   returned>>
    /\ UNCHANGED bvars

\* the loop is over: `results` is returned
CallToolsReturn ==
    /\ pc = "running"
    /\ idx > Len(calls)
    /\ Awaited(running)
    /\ returned' = Some(results)
    /\ pc' = "done"
    /\ UNCHANGED <<registry, adds, serialized, calls, idx, results, running,
                   invocations, maxInFlight>>
    /\ UNCHANGED bvars

-----------------------------------------------------------------------------
(* Inputs of the builder call chain *)

ToolNames == {"alpha", "beta"}
ToolDescriptions == {"first", "second"}
ParamNames == {"x", "y"}
ParamDescriptions == {"p"}
\* the T of add_parameter::<T> and add_optional_parameter::<T>; Foo and
\* Vec<Foo> are the types whose jsonify() is no plain string tag
ParamTypes ==
    {TyI32, TyVec(TyString), TyHashMap(TyString, TyF64), TyFoo, TyVec(TyFoo)}
EnumValues == {<<>>, <<"a", "b">>}

-----------------------------------------------------------------------------
(* The builder call chain: one action per ToolBuilder method *)

\* a call that returned: the builder moves on; a call that panicked ends the chain
ChainStep(next, op) ==
    /\ bstatus = "building"
    /\ Len(bops) < MaxOps
    /\ IF next = Panic
       THEN /\ bstatus' = "panicked"
            /\ UNCHANGED <<builder, bops>>
       ELSE /\ builder' = next
            /\ bops' = Append(bops, op)
            /\ UNCHANGED bstatus
    /\ UNCHANGED bresult
    /\ UNCHANGED dvars

CallName ==
    \E n \in ToolNames :
        ChainStep(BuilderName(builder, n), [op |-> "name", name |-> n])

CallDescription ==
    \E d \in ToolDescriptions :
        ChainStep(BuilderDescription(builder, d),
                  [op |-> "description", description |-> d])

CallAddParameter ==
    \E t \in ParamTypes, n \in ParamNames, d \in ParamDescriptions :
        ChainStep(AddParameter(builder, t, n, d),
                  [op |-> "add_parameter", name |-> n, ty |-> t,
                   description |-> d])

CallAddOptionalParameter ==
    \E t \in ParamTypes, n \in ParamNames, d \in ParamDescriptions :
        ChainStep(AddOptionalParameter(builder, t, n, d),
                  [op |-> "add_optional_parameter", name |-> n, ty |-> t,
                   description |-> d])

CallAddEnumParameter ==
    \E n \in ParamNames, d \in ParamDescriptions, e \in EnumValues :
        ChainStep(AddEnumParameter(builder, n, d, e),
                  [op |-> "add_enum_parameter", name |-> n,
                   description |-> d, enum_values |-> e])

CallAddOptionalEnumParameter ==
    \E n \in ParamNames, d \in ParamDescriptions, e \in EnumValues :
        ChainStep(AddOptionalEnumParameter(builder, n, d, e),
                  [op |-> "add_optional_enum_parameter", name |-> n,
                   description |-> d, enum_values |-> e])

CallBuild ==
    /\ bstatus = "building"
    /\ bresult' = Some(Build(builder))
    /\ bstatus' = "built"
    /\ UNCHANGED <<builder, bops>>
    /\ UNCHANGED dvars

BuilderInit ==
    /\ builder = ToolBuilderNew
    /\ bstatus = "building"
    /\ bresult = None
    /\ bops = <<>>

DispatchInit ==
    /\ registry = ToolsDefault
    /\ adds = <<>>
    /\ serialized = None
    /\ pc = "idle"
    /\ calls = <<>>
    /\ idx = 1
    /\ results = <<>>
    /\ running = {}
    /\ returned = None
    /\ invocations = <<>>
    /\ maxInFlight = 0

Init == BuilderInit /\ DispatchInit

BuilderNext ==
    \/ CallName
    \/ CallDescription
    \/ CallAddParameter
    \/ CallAddOptionalParameter
    \/ CallAddEnumParameter
    \/ CallAddOptionalEnumParameter
    \/ CallBuild

BuilderSpec == Init /\ [][BuilderNext]_vars

Next ==
    \/ DoAddTool
    \/ DoSerialize
    \/ CallToolsBegin
    \/ CallToolsIterate
    \/ HandlerPending
    \/ HandlerReturn
    \/ CallToolsReturn

Spec == Init /\ [][Next]_vars

-----------------------------------------------------------------------------
(* from_str on sample payloads, as serde_json decides them *)

FromStrExamples ==
    \* {"x":"v"}
    /\ FromStr(<<123, 34, 120, 34, 58, 34, 118, 34, 125>>)
            = Ok(JObject((<<120>> :> JString(<<118>>))))
    \* {"x":
    /\ FromStr(<<123, 34, 120, 34, 58>>)
            = Err("syntax")
    \* the empty payload
    /\ FromStr(<<>>)
            = Err("syntax")
    \*  7\n
    /\ FromStr(<<32, 55, 10>>)
            = Ok(JNumber(PosInt(<<7>>)))
    \* 7 7
    /\ FromStr(<<55, 32, 55>>)
            = Err("syntax")
    \* 01
    /\ FromStr(<<48, 49>>)
            = Err("syntax")
    \* 1.
    /\ FromStr(<<49, 46>>)
            = Err("syntax")
    \* -5
    /\ FromStr(<<45, 53>>)
            = Ok(JNumber(NegInt(<<5>>)))
    \* -0
    /\ FromStr(<<45, 48>>)
            = Ok(JNumber(Float(TRUE, U64ToF64(<<>>))))
    \* 100
    /\ FromStr(<<49, 48, 48>>)
            = Ok(JNumber(PosInt(BigFromNat(100))))
    \* 1e2
    /\ FromStr(<<49, 101, 50>>)
            = Ok(JNumber(Float(FALSE, U64ToF64(BigFromNat(100)))))
    \* 1E2
    /\ FromStr(<<49, 69, 50>>)
            = Ok(JNumber(Float(FALSE, U64ToF64(BigFromNat(100)))))
    \* 100.0
    /\ FromStr(<<49, 48, 48, 46, 48>>)
            = Ok(JNumber(Float(FALSE, U64ToF64(BigFromNat(100)))))
    \* -1.5e+2
    /\ FromStr(<<45, 49, 46, 53, 101, 43, 50>>)
            = Ok(JNumber(Float(TRUE, U64ToF64(BigFromNat(150)))))
    \* 1.50 is 1.5
    /\ FromStr(<<49, 46, 53, 48>>)
            = FromStr(<<49, 46, 53>>)
    \* 0.5
    /\ FromStr(<<48, 46, 53>>)
            = Ok(JNumber(Float(FALSE, [m |-> BigShl(<<1>>, 52), e |-> -53])))
    \* 18446744073709551615
    /\ FromStr(<<49, 56, 52, 52, 54, 55, 52, 52, 48, 55, 51, 55, 48, 57, 53, 53, 49, 54, 49, 53>>)
            = Ok(JNumber(PosInt([i \in 1..16 |-> 15])))
    \* 18446744073709551616
    /\ FromStr(<<49, 56, 52, 52, 54, 55, 52, 52, 48, 55, 51, 55, 48, 57, 53, 53, 49, 54, 49, 54>>)
            = Ok(JNumber(Float(FALSE, [m |-> BigShl(<<1>>, 52), e |-> 12])))
    \* 1e999
    /\ FromStr(<<49, 101, 57, 57, 57>>)
            = Err("syntax")
    \* -1e999
    /\ FromStr(<<45, 49, 101, 57, 57, 57>>)
            = Err("syntax")
    \* 1.7976931348623157e309
    /\ FromStr(<<49, 46, 55, 57, 55, 54, 57, 51, 49, 51, 52, 56, 54, 50, 51, 49, 53, 55, 101, 51, 48, 57>>)
            = Err("syntax")
    \* 1.7976931348623157e308
    /\ FromStr(<<49, 46, 55, 57, 55, 54, 57, 51, 49, 51, 52, 56, 54, 50, 51, 49, 53, 55, 101, 51, 48, 56>>)
            = Ok(JNumber(Float(FALSE, [m |-> [i \in 1..14 |-> IF i = 14 THEN 1 ELSE 15], e |-> 971])))
    \* 1e-999
    /\ FromStr(<<49, 101, 45, 57, 57, 57>>)
            = Ok(JNumber(Float(FALSE, U64ToF64(<<>>))))
    \* null
    /\ FromStr(<<110, 117, 108, 108>>)
            = Ok(JNull)
    \* nul
    /\ FromStr(<<110, 117, 108>>)
            = Err("syntax")
    \* [1,true]
    /\ FromStr(<<91, 49, 44, 116, 114, 117, 101, 93>>)
            = Ok(JArray(<<JNumber(PosInt(<<1>>)), JBool(TRUE)>>))
    \* [1,]
    /\ FromStr(<<91, 49, 44, 93>>)
            = Err("syntax")
    \* {}
    /\ FromStr(<<123, 125>>)
            = Ok(JObject(EmptyMap))
    \* {"a":1,}
    /\ FromStr(<<123, 34, 97, 34, 58, 49, 44, 125>>)
            = Err("syntax")
    \* {"a":1,"a":[]}
    /\ FromStr(<<123, 34, 97, 34, 58, 49, 44, 34, 97, 34, 58, 91, 93, 125>>)
            = Ok(JObject((<<97>> :> JArray(<<>>))))
    \* "a\"b"
    /\ FromStr(<<34, 97, 92, 34, 98, 34>>)
            = Ok(JString(<<97, 34, 98>>))
    \* "\b"
    /\ FromStr(<<34, 92, 98, 34>>)
            = Ok(JString(<<8>>))
    \* "\u0041"
    /\ FromStr(<<34, 92, 117, 48, 48, 52, 49, 34>>)
            = Ok(JString(<<65>>))
    \* "\u00e9\u00E9"
    /\ FromStr(<<34, 92, 117, 48, 48, 101, 57, 92, 117, 48, 48, 69, 57, 34>>)
            = Ok(JString(<<233, 233>>))
    \* "\ud83d\ude00"
    /\ FromStr(<<34, 92, 117, 100, 56, 51, 100, 92, 117, 100, 101, 48, 48, 34>>)
            = Ok(JString(<<128512>>))
    \* "\ud83d"
    /\ FromStr(<<34, 92, 117, 100, 56, 51, 100, 34>>)
            = Err("syntax")
    \* "\ude00"
    /\ FromStr(<<34, 92, 117, 100, 101, 48, 48, 34>>)
            = Err("syntax")
    \* "\ud83d\u0041"
    /\ FromStr(<<34, 92, 117, 100, 56, 51, 100, 92, 117, 48, 48, 52, 49, 34>>)
            = Err("syntax")
    \* "\u004"
    /\ FromStr(<<34, 92, 117, 48, 48, 52, 34>>)
            = Err("syntax")
    \* "\x"
    /\ FromStr(<<34, 92, 120, 34>>)
            = Err("syntax")
    \* "a, a raw line feed, b"
    /\ FromStr(<<34, 97, 10, 98, 34>>)
            = Err("syntax")
    \* "a
    /\ FromStr(<<34, 97>>)
            = Err("syntax")
    \* x
    /\ FromStr(<<120>>)
            = Err("syntax")
    \* [[[]]]
    /\ FromStr(<<91, 91, 91, 93, 93, 93>>)
            = Ok(JArray(<<JArray(<<JArray(<<>>)>>)>>))

\* the recursion limit, at a depth that leaves room for two arrays
RemainingDepthExamples ==
    /\ ParseValue(<<91, 91, 93, 93>>, 1, 3).ok
    /\ ~ParseValue(<<91, 91, 91, 93, 93, 93>>, 1, 3).ok
    /\ ~ParseValue(<<91, 123, 34, 97, 34, 58, 123, 125, 125, 93>>, 1, 3).ok

\* Jsonify on the types the repository's test names
JsonifyExamples ==
    /\ Jsonify(TyString) = JString("string")
    /\ Jsonify(TyI32) = JString("number")
    /\ Jsonify(TyBool) = JString("boolean")
    /\ Jsonify(TyVec(TyI32)) = JString("number[]")
    /\ Jsonify(TyHashMap(TyString, TyString)) = JString("Map<string, string>")
    /\ Jsonify(TyFoo) =
            JObject([a |-> JObject([type |-> JString("number"),
                                    description |-> JString("a is some number")]),
                     b |-> JObject([type |-> JString("string")]),
                     c |-> JObject([type |-> JString("number[]")])])
    /\ Jsonify(TyVec(TyFoo)) = Panic
    /\ TypeTag(TyFoo) = None

-----------------------------------------------------------------------------
(* What the builder chain's history declares, read off bops alone.  The    *)
(* schema tags are those the specification lists for each type.            *)

TypedAdders == {"add_parameter", "add_optional_parameter"}
EnumAdders == {"add_enum_parameter", "add_optional_enum_parameter"}
RequiredAdders == {"add_parameter", "add_enum_parameter"}

IsAdder(o) == o.op \in TypedAdders \cup EnumAdders

AdderCalls(ops) == {i \in 1..Len(ops) : IsAdder(ops[i])}

DeclaredNames(ops) == {ops[i].name : i \in AdderCalls(ops)}

LastDeclaration(ops, n) ==
    CHOOSE i \in AdderCalls(ops) :
        /\ ops[i].name = n
        /\ \A j \in AdderCalls(ops) : ops[j].name = n => j <= i

ExpectedTag(t) ==
    CASE t = TyI32 -> "number"
      [] t = TyVec(TyString) -> "string[]"
      [] t = TyHashMap(TyString, TyF64) -> "Map<string, number>"

DeclaredSpec(o) ==
    IF o.op \in EnumAdders
    THEN [argument_type |-> "string", description |-> o.description,
          argument_enum |-> Some(o.enum_values)]
    ELSE [argument_type |-> ExpectedTag(o.ty), description |-> o.description,
          argument_enum |-> None]

RequiredCalls(ops) ==
    LET sel == SelectSeq(ops, LAMBDA o : o.op \in RequiredAdders) IN
    [i \in 1..Len(sel) |-> sel[i].name]

CallsOf(ops, kind) == {i \in 1..Len(ops) : ops[i].op = kind}

LastCallOf(ops, kind) ==
    CHOOSE i \in CallsOf(ops, kind) : \A j \in CallsOf(ops, kind) : j <= i

\* the parameters the chain has accumulated so far
Accumulated == UnwrapOrDefault(builder.parameters)

-----------------------------------------------------------------------------
(* Claims about the builder, checked under BuilderSpec *)

\* C4: build() fails with NameNotSet when name() was never called (whether
\* or not description() was), fails with DescriptionNotSet when name() was
\* called and description() never was, and otherwise succeeds with the last
\* name, the last description and the parameters the declarations of the
\* chain amount to; with no adder called these are the kind "object", empty
\* properties and an empty required list.
C4_BuildOutcome ==
    bstatus = "built" =>
        /\ bresult.some
        /\ IF CallsOf(bops, "name") = {}
           THEN bresult.v = [ok |-> FALSE, err |-> "NameNotSet"]
           ELSE IF CallsOf(bops, "description") = {}
           THEN bresult.v = [ok |-> FALSE, err |-> "DescriptionNotSet"]
           ELSE /\ bresult.v.ok
                /\ bresult.v.v.tool_type = "Function"
                /\ bresult.v.v.function.name
                        = bops[LastCallOf(bops, "name")].name
                /\ bresult.v.v.function.description
                        = bops[LastCallOf(bops, "description")].description
                /\ LET ps == bresult.v.v.function.parameters IN
                    /\ ps.parameter_type = "object"
                    /\ ps.required = RequiredCalls(bops)
                    /\ DOMAIN ps.properties = DeclaredNames(bops)
                    /\ \A n \in DeclaredNames(bops) :
                        ps.properties[n]
                            = DeclaredSpec(bops[LastDeclaration(bops, n)])
                    /\ AdderCalls(bops) = {} =>
                        /\ ps.properties = EmptyMap
                        /\ ps.required = <<>>

\* C4 witness: name() called twice and description() once, no adder, and
\* build() has succeeded
C4_Witness ==
    /\ bstatus = "built"
    /\ bresult.v.ok
    /\ Len(bops) = 3
    /\ AdderCalls(bops) = {}
    /\ bops[1].op = "name" /\ bops[2].op = "name" /\ bops[1] # bops[2]

\* C5: after any sequence of adder calls every name of the required list is
\* a key of properties, in the builder and in the tool build() returns.
C5_RequiredInProperties ==
    /\ \A i \in 1..Len(Accumulated.required) :
            Accumulated.required[i] \in DOMAIN Accumulated.properties
    /\ (bresult.some /\ bresult.v.ok) =>
            LET ps == bresult.v.v.function.parameters IN
            \A i \in 1..Len(ps.required) :
                ps.required[i] \in DOMAIN ps.properties

\* C5 witness: two required names and a repeated name
C5_Witness ==
    /\ Len(bops) = 3
    /\ Len(Accumulated.required) = 2
    /\ Accumulated.required[1] # Accumulated.required[2]
    /\ bops[3].op = "add_optional_enum_parameter"

\* C6: every entry of properties that carries enum values has the type
\* "string", and an entry carries enum values exactly when the last adder
\* that declared its name was one of the two enum adders.
C6_EnumIsString ==
    \A n \in DOMAIN Accumulated.properties :
        LET p == Accumulated.properties[n] IN
        /\ p.argument_enum.some => p.argument_type = "string"
        /\ p.argument_enum.some
            <=> n \in DeclaredNames(bops)
                /\ bops[LastDeclaration(bops, n)].op \in EnumAdders

\* C6 witness: a name declared by an enum adder and then by a typed adder
\* has lost its enum values, while another name carries them
C6_Witness ==
    /\ Len(bops) = 3
    /\ bops[1].op \in EnumAdders /\ bops[1].name = "x"
    /\ bops[2].op \in TypedAdders /\ bops[2].name = "x"
    /\ bops[3].op \in EnumAdders /\ bops[3].name = "y"
    /\ ~Accumulated.properties["x"].argument_enum.some
    /\ Accumulated.properties["x"].argument_type # "string"
    /\ Accumulated.properties["y"].argument_enum.some

\* C9: the required list is the names passed to add_parameter and
\* add_enum_parameter, in call order, repeats included; the optional adders
\* leave it alone; properties maps each declared name to the spec of its
\* last declaration.
C9_RequiredIsCallOrder ==
    /\ Accumulated.required = RequiredCalls(bops)
    /\ DOMAIN Accumulated.properties = DeclaredNames(bops)
    /\ \A n \in DeclaredNames(bops) :
            Accumulated.properties[n]
                = DeclaredSpec(bops[LastDeclaration(bops, n)])

\* C9 witness: the same name declared required twice and then optional: it
\* is twice in required, and its spec is the optional declaration's
C9_Witness ==
    /\ Len(bops) = 3
    /\ bops[1].op = "add_parameter" /\ bops[1].name = "x"
    /\ bops[2].op = "add_enum_parameter" /\ bops[2].name = "x"
    /\ bops[3].op = "add_optional_parameter" /\ bops[3].name = "x"
    /\ Accumulated.required = <<"x", "x">>
    /\ Accumulated.properties["x"].argument_enum = None

-----------------------------------------------------------------------------
(* What a batch asks for, read off the requests and the add_tool history.  *)
(* Which handler describes which tool, and which payloads are JSON, are    *)
(* written out here and not computed by the operators under check.         *)

HandlerName(h) == CASE h \in {"h1", "h2"} -> "alpha" [] h = "h3" -> "beta"
HandlerDescription(h) ==
    CASE h = "h1" -> "first" [] h = "h2" -> "second" [] h = "h3" -> "third"

RegisteredNames == {HandlerName(adds[i]) : i \in 1..Len(adds)}

\* the handler of the last add_tool call under name n
LastRegistered(n) ==
    LET last == CHOOSE i \in 1..Len(adds) :
                    /\ HandlerName(adds[i]) = n
                    /\ \A j \in 1..Len(adds) : HandlerName(adds[j]) = n => j <= i
    IN adds[last]

Registered(i) == calls[i].function.name \in RegisteredNames

\* {"x":"v"} is a JSON text; {"x": is not
Decodable(i) == calls[i].function.arguments = PayloadObject
\* the object whose one member "x" is the string "v"
DecodedArguments(i) ==
    [kind |-> "object",
     fields |-> [k \in {<<120>>} |-> [kind |-> "string", s |-> <<118>>]]]

InvocationsOf(i) == {j \in 1..Len(invocations) : invocations[j].k = i}

\* the requests the loop has taken so far
Taken == 1..(idx - 1)

\* the 16 characters of the JSON text "Tool not found", quotes included
QuotedToolNotFound == "\"Tool not found\""

-----------------------------------------------------------------------------
(* Claims about the registry and dispatch, checked under Spec *)

\* C1 as stated: a request whose name is not registered yields, whatever
\* its payload, a result with the request's id whose content is exactly
\* Tool not found; no handler is invoked for it and dispatch does not fail.
C1_AsStated ==
    /\ \A i \in Taken :
        ~Registered(i) =>
            /\ i <= Len(results)
            /\ results[i] = [tool_call_id |-> calls[i].id,
                             content |-> "Tool not found"]
            /\ InvocationsOf(i) = {}
    /\ pc = "panicked" => Registered(idx)

\* C1 amended: as C1, with the content being the JSON text of the string,
\* that is Tool not found between two double-quote characters.
C1_NotFoundResult ==
    /\ \A i \in Taken :
        ~Registered(i) =>
            /\ i <= Len(results)
            /\ results[i] = [tool_call_id |-> calls[i].id,
                             content |-> QuotedToolNotFound]
            /\ Len(results[i].content) = 16
            /\ InvocationsOf(i) = {}
    /\ pc = "panicked" => Registered(idx)

\* C1 witness: with a tool registered, a request for another name and with
\* an undecodable payload has been taken, and the batch has completed
C1_Witness ==
    /\ pc = "done"
    /\ registry # EmptyMap
    /\ \E i \in 1..Len(calls) :
        /\ ~Registered(i)
        /\ ~Decodable(i)
        /\ returned.v[i].tool_call_id = calls[i].id

\* C2: a batch of N requests in which every request for a registered tool
\* has a decodable payload does not fail, and when call_tools returns it
\* returns N results, the i-th being the not-found result of request i or
\* the result the handler invoked for request i returned.
C2_ResultsInRequestOrder ==
    /\ (\A i \in 1..Len(calls) : Registered(i) => Decodable(i))
            => pc # "panicked"
    /\ pc = "done" =>
        /\ returned.some
        /\ Len(returned.v) = Len(calls)
        /\ \A i \in 1..Len(calls) :
            IF Registered(i)
            THEN \E j \in InvocationsOf(i) :
                    /\ invocations[j].id = calls[i].id
                    /\ invocations[j].result = Some(returned.v[i])
            ELSE returned.v[i] = [tool_call_id |-> calls[i].id,
                                  content |-> QuotedToolNotFound]

\* C2 witness: a completed batch of two whose first request is not found
\* and whose second was handled
C2_Witness ==
    /\ pc = "done"
    /\ Len(calls) = 2
    /\ ~Registered(1)
    /\ Registered(2)
    /\ calls[1].id # calls[2].id
    /\ Len(returned.v) = 2

\* C3: the registry holds one entry per distinct registered name, with the
\* schema and the handler of the last tool registered under it; what it
\* serializes to holds one schema per name; a request is handled by the
\* last-registered handler of its name only.
C3_LastRegistrationWins ==
    /\ DOMAIN registry = RegisteredNames
    /\ \A n \in RegisteredNames :
        /\ registry[n].handler = LastRegistered(n)
        /\ registry[n].json = ToValue(HandlerToTool(LastRegistered(n)))
        /\ registry[n].json.fields.function.fields.name = JString(n)
        /\ registry[n].json.fields.function.fields.description
                = JString(HandlerDescription(LastRegistered(n)))
    /\ serialized.some =>
        /\ Len(serialized.v) = Cardinality(RegisteredNames)
        /\ \A n \in RegisteredNames :
            Cardinality({i \in 1..Len(serialized.v) :
                serialized.v[i].fields.function.fields.name = JString(n)}) = 1
    /\ \A j \in 1..Len(invocations) :
        invocations[j].handler
            = LastRegistered(calls[invocations[j].k].function.name)

\* C3 witness: two different handlers registered under one name, and the
\* registry serialized to a single schema
C3_Witness ==
    /\ Len(adds) = 2
    /\ adds[1] # adds[2]
    /\ HandlerName(adds[1]) = HandlerName(adds[2])
    /\ serialized.some
    /\ Len(serialized.v) = 1

\* C7: at most one handler of the batch is in progress at any time, and
\* while the handler of request i is in progress the results of exactly the
\* requests before i have been appended and no later request is taken.
C7_OneHandlerAtATime ==
    /\ Cardinality(running) <= 1
    /\ maxInFlight <= 1
    /\ \A f \in running :
        /\ f.k = idx - 1
        /\ Len(results) = f.k - 1

\* C7 witness: the second handler of a batch is in progress, and has been
\* polled, after the first has completed
C7_Witness ==
    /\ Len(invocations) = 2
    /\ invocations[1].result.some
    /\ \E f \in running : f.k = 2 /\ f.polls = MaxLatency

\* the state part of C8: what holds of the requests taken and of a failed call
C8_FailedCall ==
    /\ \A i \in Taken : Registered(i) => Decodable(i)
    /\ pc = "panicked" =>
        /\ idx <= Len(calls)
        /\ Registered(idx)
        /\ ~Decodable(idx)
        /\ InvocationsOf(idx) = {}
        /\ Len(results) = idx - 1
        /\ returned = None
        /\ \A i \in Taken : Registered(i) =>
                \E j \in InvocationsOf(i) : invocations[j].result.some

\* C8: a request for a registered tool whose payload does not decode makes
\* the call fail as a whole: its handler is not invoked, nothing is appended
\* for it, nothing further happens in the batch and no result list is
\* returned, while the handlers of the earlier requests have run; and such
\* a request is never passed over.  (No step leaves a failed call.)
C8_DecodeFailureIsFatal ==
    /\ []C8_FailedCall
    /\ [][pc # "panicked"]_vars

\* C8 witness: the second request of a batch failed to decode after the
\* handler of the first had run
C8_Witness ==
    /\ pc = "panicked"
    /\ idx = 2
    /\ Len(invocations) = 1
    /\ invocations[1].result.some
    /\ Len(results) = 1

\* the state part of C10: what holds once call_tools has returned
C10_CompletedBatch ==
    pc = "done" =>
        /\ Len(invocations)
                = Cardinality({i \in 1..Len(calls) : Registered(i)})
        /\ \A i \in 1..Len(calls) :
            IF Registered(i)
            THEN /\ Cardinality(InvocationsOf(i)) = 1
                 /\ \A j \in InvocationsOf(i) :
                    /\ invocations[j].handler
                            = registry[calls[i].function.name].handler
                    /\ invocations[j].id = calls[i].id
                    /\ invocations[j].input = DecodedArguments(i)
                    /\ invocations[j].result = Some(returned.v[i])
            ELSE InvocationsOf(i) = {}
        /\ DOMAIN registry = RegisteredNames
        /\ \A n \in RegisteredNames : registry[n].handler = LastRegistered(n)

\* C10: in a completed batch each request for a registered tool caused one
\* invocation, of the handler registered under its name, with the request's
\* id and its decoded arguments, and the handler's result is what the
\* returned list holds for it; there are as many invocations as such
\* requests; the registry is what the add_tool calls left, and no step of
\* the batch changes it.
C10_OneInvocationPerRequest ==
    /\ []C10_CompletedBatch
    /\ [][pc = "running" => registry' = registry]_vars

\* C10 witness: a completed batch of two requests, handled by two
\* different handlers
C10_Witness ==
    /\ pc = "done"
    /\ Len(invocations) = 2
    /\ invocations[1].handler # invocations[2].handler
    /\ invocations[1].id # invocations[2].id

====
